---------------------------- MODULE Spec2Model ----------------------------
(***************************************************************************)
(* A model of the analysis scripts of everything-is-everywhere:            *)
(*                                                                         *)
(*   create_grid_and_release_locs.py      generate_grid and its two savers *)
(*   create_grid_polygon_metrics_df.py    generate_analysis_csv            *)
(*   extract_release_and_settlement_polys.py   process_nc_to_csv           *)
(*   ersem_nc_to_polygons.py              process_ersem_to_polygons        *)
(*                                                                         *)
(* Each run of a script is a behaviour: Init fixes the arguments and the   *)
(* contents of the input files, one action per function call does what the *)
(* function does, and `written' records the output files on disk.          *)
(*                                                                         *)
(* Geometry.  Longitudes, latitudes and cell sizes are counted in tenths   *)
(* (0.1 degree, 0.1 km), so cell_size_km = 111 stands for 11.1 km, which   *)
(* the code turns into a step of 0.1 degree, one unit.  A polygon is the   *)
(* set of unit squares <<x, y>> = [x,x+1) x [y,y+1) it covers, x counting  *)
(* longitude and y latitude: difference is set difference, within is       *)
(* inclusion, is_empty is emptiness.  Areas are exact in this reading;     *)
(* zero-area contacts along shared boundaries are not represented.         *)
(*                                                                         *)
(* Numbers.  A missing value (NaN) is the empty tuple <<>>, a present      *)
(* value v is <<v>>; a ratio n/d is <<n, d>> with d > 0.                   *)
(***************************************************************************)
EXTENDS Integers, Sequences, FiniteSets, TLC

VARIABLES
    pipeline,     \* which script this run executes
    pc,           \* position in the script's call sequence
    written,      \* the output files this run has written
    args,         \* the call's arguments and the contents of its input files
    grid_cells,   \* generate_grid: the lattice rectangles, in generation order
    ocean_grid,   \* generate_grid: the returned GeoDataFrame
    df,           \* generate_analysis_csv: the analysis table
    results,      \* process_nc_to_csv / process_ersem_to_polygons: the table
    error         \* the exception that ended the run, "" while there is none

vars == <<pipeline, pc, written, args, grid_cells, ocean_grid, df, results, error>>

NaN == <<>>
IsNaN(v) == v = <<>>

RECURSIVE SeqSum(_)
SeqSum(s) == IF s = <<>> THEN 0 ELSE Head(s) + SeqSum(Tail(s))

RECURSIVE Flatten(_)
Flatten(ss) == IF ss = <<>> THEN <<>> ELSE Head(ss) \o Flatten(Tail(ss))

RECURSIVE SelectIdx(_, _, _)
\* The indices i of 1..n, increasing, for which keep[i] holds.
SelectIdx(keep, i, n) ==
    IF i > n THEN <<>>
    ELSE (IF keep[i] THEN <<i>> ELSE <<>>) \o SelectIdx(keep, i + 1, n)

Range(s) == {s[i] : i \in DOMAIN s}

(***************************************************************************)
(* Bounds of the model.                                                    *)
(***************************************************************************)
MaxCoord == 2
MaxLandPolys == 1

(***************************************************************************)
(* create_grid_and_release_locs.py                                         *)
(***************************************************************************)
KmPerDegree == 111

Coords == 0..MaxCoord
CellSizesKm == {KmPerDegree, 2 * KmPerDegree}
WorldMax == MaxCoord + 2

\* shapely.geometry.box(minx, miny, maxx, maxy)
Box(minx, miny, maxx, maxy) ==
    {<<x, y>> : x \in minx..(maxx - 1), y \in miny..(maxy - 1)}

\* The land polygons a mask file may hold: rectangles of land in the
\* south-west corner of the world.
LandPolys == {Box(0, 0, k, j) : k \in 1..WorldMax, j \in 1..WorldMax}

RECURSIVE MasksUpTo(_)
\* The sets of at most n land polygons.
MasksUpTo(n) ==
    IF n = 0 THEN {{}}
    ELSE LET smaller == MasksUpTo(n - 1)
         IN  smaller \cup {m \cup {p} : m \in smaller, p \in LandPolys}

\* The contents gpd.read_file(gebco_mask_shp) may return.
LandMasks == MasksUpTo(MaxLandPolys)

\* The sign of the rounding error of the double quotient (stop - start)/step.
Rounding == {-1, 0, 1}

\* land_mask.unary_union
UnaryUnion(land_mask) == UNION land_mask

ArangeLen(start, stop, step, rnd) ==
    LET d == stop - start
    IN  IF d <= 0 THEN 0
        ELSE IF d % step = 0
             THEN (d \div step) + (IF rnd > 0 THEN 1 ELSE 0)
             ELSE (d \div step) + 1

\* np.arange(start, stop, step): ceil((stop - start)/step) values
\* start + i*step, the quotient taken in double arithmetic.
Arange(start, stop, step, rnd) ==
    [i \in 1..ArangeLen(start, stop, step, rnd) |-> start + (i - 1) * step]

CellSizeDeg(cell_size_km) == cell_size_km \div KmPerDegree

\* Lines 25-31: the rectangles, latitude in the outer loop.
GridCells(lat_steps, lon_steps, cell_size_deg) ==
    Flatten([i \in 1..Len(lat_steps) |->
        [j \in 1..Len(lon_steps) |->
            Box(lon_steps[j], lat_steps[i],
                lon_steps[j] + cell_size_deg, lat_steps[i] + cell_size_deg)]])

\* A filter that drops every cell touching land instead of every cell on land.
WithinAsIntersects(g, other) == g \cap other # {}

\* GeoSeries.within(other), per geometry.
Within(g, other) == g \subseteq other

\* Line 40: grid[~grid.geometry.within(land_mask.unary_union)], as the index
\* labels kept.
NotOnLand(cells, land_mask) ==
    SelectIdx([i \in 1..Len(cells) |-> ~Within(cells[i], UnaryUnion(land_mask))],
              1, Len(cells))

\* A clip that subtracts nothing.
DifferenceNoClip(g, land_mask) == g

\* Line 43: g.difference(land_mask.unary_union)
Difference(g, land_mask) == g \ UnaryUnion(land_mask)

\* Lines 40-46 on the lattice: each row keeps its index label.
OceanRows(cells, land_mask) ==
    LET kept    == NotOnLand(cells, land_mask)
        clipped == [k \in 1..Len(kept) |->
                       [index |-> kept[k],
                        geometry |-> Difference(cells[kept[k]], land_mask)]]
        nonempty == SelectIdx([k \in 1..Len(clipped) |-> clipped[k].geometry # {}],
                              1, Len(clipped))
    IN  [k \in 1..Len(nonempty) |-> clipped[nonempty[k]]]

GridArgs ==
    [min_lat : Coords, max_lat : Coords, min_lon : Coords, max_lon : Coords,
     cell_size_km : CellSizesKm, gebco_mask_shp : LandMasks]

InitGrid ==
    /\ pipeline = "grid"
    /\ pc = "start"
    /\ written = {}
    /\ args \in GridArgs
    /\ grid_cells = <<>>
    /\ ocean_grid = <<>>
    /\ df = <<>>
    /\ results = <<>>
    /\ error = ""

\* generate_grid(min_lat, max_lat, min_lon, max_lon, cell_size_km, gebco_mask_shp)
GenerateGrid ==
    /\ pipeline = "grid"
    /\ pc = "start"
    /\ \E rnd_lat \in Rounding, rnd_lon \in Rounding, readable \in BOOLEAN :
          LET cell_size_deg == CellSizeDeg(args.cell_size_km)
              lat_steps == Arange(args.min_lat, args.max_lat, cell_size_deg, rnd_lat)
              lon_steps == Arange(args.min_lon, args.max_lon, cell_size_deg, rnd_lon)
              cells == GridCells(lat_steps, lon_steps, cell_size_deg)
          IN  /\ grid_cells' = cells
              /\ IF readable
                 THEN /\ ocean_grid' = OceanRows(cells, args.gebco_mask_shp)
                      /\ pc' = "built"
                      /\ error' = ""
                 ELSE /\ ocean_grid' = ocean_grid
                      /\ pc' = "failed"
                      /\ error' = "read_file"
    /\ UNCHANGED <<pipeline, written, args, df, results>>

NextGrid == GenerateGrid

SpecGrid == InitGrid /\ [][NextGrid]_vars

(***************************************************************************)
(* Properties of generate_grid.                                            *)
(***************************************************************************)
GridReturned == pipeline = "grid" /\ pc \in {"built", "shp_saved", "done"}

Land == UnaryUnion(args.gebco_mask_shp)

\* C1: every cell generate_grid returns covers no land: its intersection
\* with the unioned land mask is empty.
C1_OceanOnly ==
    GridReturned =>
        \A k \in DOMAIN ocean_grid : ocean_grid[k].geometry \cap Land = {}

\* A returned cell whose lattice rectangle lay partly on land was clipped.
C1_Witness ==
    /\ GridReturned
    /\ \E k \in DOMAIN ocean_grid :
          /\ grid_cells[ocean_grid[k].index] \cap Land # {}
          /\ ocean_grid[k].geometry # {}

\* C2: the returned cells are exactly the lattice outside land: each
\* returned cell is its own lattice rectangle minus land, a rectangle is
\* absent exactly when nothing of it lies outside land, and together the
\* cells cover the whole lattice minus land.
C2_RoundTrip ==
    GridReturned =>
        /\ \A k \in DOMAIN ocean_grid :
              /\ ocean_grid[k].index \in DOMAIN grid_cells
              /\ ocean_grid[k].geometry = grid_cells[ocean_grid[k].index] \ Land
        /\ \A i \in DOMAIN grid_cells :
              (\E k \in DOMAIN ocean_grid : ocean_grid[k].index = i)
                  <=> (grid_cells[i] \ Land # {})
        /\ \A i \in DOMAIN grid_cells :
              grid_cells[i] \subseteq Land
                  => ~(\E k \in DOMAIN ocean_grid : ocean_grid[k].index = i)
        /\ UNION {ocean_grid[k].geometry : k \in DOMAIN ocean_grid}
              = (UNION Range(grid_cells)) \ Land

\* One rectangle dropped as land, one clipped, one returned whole.
C2_Witness ==
    /\ GridReturned
    /\ \E i \in DOMAIN grid_cells : grid_cells[i] \subseteq Land
    /\ \E k \in DOMAIN ocean_grid :
          /\ ocean_grid[k].geometry # grid_cells[ocean_grid[k].index]
    /\ \E k \in DOMAIN ocean_grid :
          /\ ocean_grid[k].geometry = grid_cells[ocean_grid[k].index]

ZeroLatticeBox ==
    \/ args.min_lat >= args.max_lat
    \/ args.min_lon >= args.max_lon
    \/ CellSizeDeg(args.cell_size_km) > args.max_lat - args.min_lat
    \/ CellSizeDeg(args.cell_size_km) > args.max_lon - args.min_lon

\* C9: a bounding box that yields no lattice cell (min >= max on an axis),
\* or a cell size larger than the box, ends generate_grid in an error; it
\* never returns a grid.
C9_DegenerateBoxFails ==
    (pipeline = "grid" /\ pc # "start" /\ ZeroLatticeBox) => pc = "failed"

\* The origins min + k*step, k >= 0, strictly below max.
HalfOpenSteps(start, stop, step) ==
    [i \in 1..Cardinality({k \in 0..(stop - start) : start + k * step < stop})
        |-> start + (i - 1) * step]

HalfOpenLattice ==
    GridCells(HalfOpenSteps(args.min_lat, args.max_lat, CellSizeDeg(args.cell_size_km)),
              HalfOpenSteps(args.min_lon, args.max_lon, CellSizeDeg(args.cell_size_km)),
              CellSizeDeg(args.cell_size_km))

\* C10: the output is the row-major half-open lattice with the removed
\* cells deleted, the survivors in their lattice order; a box 2 steps high
\* and 2 steps wide clear of land yields exactly 4 cells.
C10_RowMajorHalfOpenLattice ==
    GridReturned =>
        /\ grid_cells = HalfOpenLattice
        /\ \A k \in DOMAIN ocean_grid :
              /\ ocean_grid[k].index \in DOMAIN HalfOpenLattice
              /\ ocean_grid[k].geometry = HalfOpenLattice[ocean_grid[k].index] \ Land
        /\ \A k \in 1..(Len(ocean_grid) - 1) :
              ocean_grid[k].index < ocean_grid[k + 1].index
        /\ ( /\ args.max_lat - args.min_lat = 2 * CellSizeDeg(args.cell_size_km)
             /\ args.max_lon - args.min_lon = 2 * CellSizeDeg(args.cell_size_km)
             /\ (UNION Range(grid_cells)) \cap Land = {} )
              => Len(ocean_grid) = 4

(***************************************************************************)
(* save_grid_as_shapefile and save_centroids_as_csv, called in the order   *)
(* of the script's example usage.  A writer either writes its file or      *)
(* raises and writes nothing.                                              *)
(***************************************************************************)
RECURSIVE SumOver(_, _)
\* The sum of f[x] over the x of S.
SumOver(f, S) == IF S = {} THEN 0
                 ELSE LET x == CHOOSE y \in S : TRUE IN f[x] + SumOver(f, S \ {x})

\* geometry.centroid, as the ratios <<sum of 2*x + 1, 2*n>>, <<sum of 2*y + 1, 2*n>>.
Centroid(g) ==
    [x |-> <<SumOver([a \in g |-> 2 * a[1] + 1], g), 2 * Cardinality(g)>>,
     y |-> <<SumOver([a \in g |-> 2 * a[2] + 1], g), 2 * Cardinality(g)>>]

\* save_grid_as_shapefile(grid, output_shapefile)
SaveGridAsShapefile ==
    /\ pipeline = "grid"
    /\ pc = "built"
    /\ \E writable \in BOOLEAN :
          IF writable
          THEN /\ written' = written \cup {"grid.shp"}
               /\ pc' = "shp_saved"
               /\ error' = ""
          ELSE /\ written' = written
               /\ pc' = "failed"
               /\ error' = "to_file"
    /\ UNCHANGED <<pipeline, args, grid_cells, ocean_grid, df, results>>

\* save_centroids_as_csv(grid, output_csv)
SaveCentroidsAsCsv ==
    /\ pipeline = "grid"
    /\ pc = "shp_saved"
    /\ ocean_grid' = [k \in DOMAIN ocean_grid |->
                         [index |-> ocean_grid[k].index,
                          geometry |-> ocean_grid[k].geometry,
                          centroid_lat |-> Centroid(ocean_grid[k].geometry).y,
                          centroid_lon |-> Centroid(ocean_grid[k].geometry).x]]
    /\ \E writable \in BOOLEAN :
          IF writable
          THEN /\ written' = written \cup {"release_locs.csv"}
               /\ pc' = "done"
               /\ error' = ""
          ELSE /\ written' = written
               /\ pc' = "failed"
               /\ error' = "to_csv"
    /\ UNCHANGED <<pipeline, args, grid_cells, df, results>>

(***************************************************************************)
(* create_grid_polygon_metrics_df.py                                       *)
(*                                                                         *)
(* A table is [cols |-> its column names, rows |-> its rows in order], a   *)
(* row a function from column names to values.  A join key k is held as    *)
(* <<k>>, so that an unmatched key is NaN.                                 *)
(***************************************************************************)
MaxCells == 3
ZScale == 100

Column(rows, c) == [i \in DOMAIN rows |-> rows[i][c]]
AddColumn(rows, c, col) == [i \in DOMAIN rows |-> rows[i] @@ (c :> col[i])]

\* DataFrame.merge(right, how="left"): every left row in order, once per
\* matching right row in the right table's order, or once with the right
\* table's columns missing when no right row matches.
MergeLeft(left, right, left_on, right_on) ==
    [cols |-> left.cols \cup right.cols,
     rows |-> Flatten([i \in DOMAIN left.rows |->
                 LET l == left.rows[i]
                     m == SelectSeq(right.rows, LAMBDA r : r[right_on] = l[left_on])
                 IN  IF m = <<>>
                     THEN <<l @@ [c \in right.cols \ left.cols |-> NaN]>>
                     ELSE [j \in DOMAIN m |-> l @@ m[j]]])]

\* Line 36: structures.geometry.intersects(x).any(), a point being the unit
\* it lies in.
ContainsStructure(structures, x) == \E p \in structures : p \in x

\* Lines 39-40: grid[["geometry"]].reset_index(), index renamed to Cell ID.
GridDf(grid) ==
    [cols |-> {"Cell ID", "geometry"},
     rows |-> [i \in DOMAIN grid.rows |->
                 ("Cell ID" :> <<i - 1>>) @@ ("geometry" :> grid.rows[i]["geometry"])]]

\* Line 49's right table: grid[["Cell ID", "contains_structure"]].
GridFlags(grid, structures) ==
    [cols |-> {"Cell ID", "contains_structure"},
     rows |-> [i \in DOMAIN grid.rows |->
                 ("Cell ID" :> grid.rows[i]["Cell ID"])
                    @@ ("contains_structure" :>
                           <<ContainsStructure(structures, grid.rows[i]["geometry"])>>)]]

\* Lines 43-49.
Merged(a) ==
    LET m1 == MergeLeft(GridDf(a.grid_shp), a.in_degree_file, "Cell ID", "Node")
        m2 == MergeLeft(m1, a.out_degree_file, "Node", "Node")
        m3 == MergeLeft(m2, a.betweenness_file, "Node", "Node")
        m4 == MergeLeft(m3, a.food_availability_file, "Node", "Node")
        m5 == MergeLeft(m4, a.self_recruitment_file, "Node", "Node")
        m6 == MergeLeft(m5, a.community_file, "Node", "Node")
    IN  MergeLeft(m6, GridFlags(a.grid_shp, a.structure_shp), "Cell ID", "Cell ID")

\* Lines 52-60.  Node is renamed to Cell ID beside the Cell ID column there
\* already; the table then has two columns of that name, and the second is
\* kept here under the key Node.
NewName(c) ==
    CASE c = "Out_Degree" -> "out"
      [] c = "In_Degree" -> "in"
      [] c = "Betweenness" -> "node_betw"
      [] c = "Food_Availability" -> "food_av"
      [] c = "Self_Recruitment" -> "sr"
      [] c = "Community" -> "community"
      [] OTHER -> c

Rename(rows) ==
    [i \in DOMAIN rows |->
        [c \in {NewName(k) : k \in DOMAIN rows[i]} |->
            rows[i][CHOOSE k \in DOMAIN rows[i] : NewName(k) = c]]]

normalize_cols == <<"out", "in", "node_betw", "food_av">>

Present(col) == {col[i][1] : i \in {j \in DOMAIN col : ~IsNaN(col[j])}}
SetMin(S) == CHOOSE x \in S : \A y \in S : x <= y
SetMax(S) == CHOOSE x \in S : \A y \in S : x >= y

\* A scaler whose minimum and maximum read a missing value as 0.
MinMaxScaleNaNAsZero(col) ==
    LET vals == Present(col) \cup (IF \E i \in DOMAIN col : IsNaN(col[i]) THEN {0} ELSE {})
    IN  [i \in DOMAIN col |->
            IF IsNaN(col[i]) THEN NaN
            ELSE IF SetMax(vals) = SetMin(vals) THEN <<col[i][1] - SetMin(vals), 1>>
                 ELSE <<col[i][1] - SetMin(vals), SetMax(vals) - SetMin(vals)>>]

\* A scaler that divides by the range without subtracting the minimum.
MinMaxScaleNoShift(col) ==
    [i \in DOMAIN col |->
        IF IsNaN(col[i]) THEN NaN
        ELSE IF SetMax(Present(col)) = SetMin(Present(col)) THEN <<0, 1>>
             ELSE <<col[i][1], SetMax(Present(col)) - SetMin(Present(col))>>]

\* Line 65, one column: MinMaxScaler().fit_transform.  data_min and data_max
\* skip NaN, a zero range is scaled by 1, and NaN stays NaN: the value is
\* (x - data_min) / (data_max - data_min), or x - data_min = 0 on a constant
\* column.
MinMaxScale(col) ==
    LET data_min == SetMin(Present(col))
        data_max == SetMax(Present(col))
    IN  [i \in DOMAIN col |->
            IF IsNaN(col[i]) THEN NaN
            ELSE IF data_max = data_min THEN <<col[i][1] - data_min, 1>>
                 ELSE <<col[i][1] - data_min, data_max - data_min>>]

RECURSIVE ISqrt(_, _, _)
\* The integer square root of n, by bisection of lo..hi.
ISqrt(n, lo, hi) ==
    IF lo >= hi THEN lo
    ELSE LET mid == (lo + hi + 1) \div 2
         IN  IF mid * mid <= n THEN ISqrt(n, mid, hi) ELSE ISqrt(n, lo, mid - 1)

\* Line 68, one column: zscore(a, nan_policy='omit'), ddof = 0, on the
\* normalised column.  The present values p_i/q share their denominator q,
\* so with k of them and S their numerators' sum, x_i - mean is
\* (k*p_i - S)/(k*q) and the standard deviation sqrt(V/k)/(k*q) with V the
\* sum of the (k*p_j - S)^2: z_i = (k*p_i - S)*sqrt(k)/sqrt(V), and 0/0 = NaN
\* when V = 0.  The result is held in units of 1/ZScale, cut toward 0.
ZScore(col) ==
    LET idx == {i \in DOMAIN col : ~IsNaN(col[i])}
        k   == Cardinality(idx)
        S   == SumOver([i \in idx |-> col[i][1]], idx)
        dev == [i \in idx |-> k * col[i][1] - S]
        V   == SumOver([i \in idx |-> dev[i] * dev[i]], idx)
    IN  [i \in DOMAIN col |->
            IF IsNaN(col[i]) \/ V = 0 THEN NaN
            ELSE LET mag == ISqrt((dev[i] * dev[i] * k * ZScale * ZScale) \div V,
                                  0, ZScale * k)
                 IN  <<IF dev[i] < 0 THEN 0 - mag ELSE mag>>]

\* Line 71: DataFrame.sum(axis=1) skips NaN; a row of NaN sums to 0.
RowSum(row, cols) ==
    SeqSum([j \in DOMAIN cols |-> IF IsNaN(row[cols[j]]) THEN 0 ELSE row[cols[j]][1]])

\* Line 74: 2 * (z_sum - min) / (max - min) - 1, and 0/0 = NaN.
Standardize(zs) ==
    LET lo == SetMin(Range(zs))
        hi == SetMax(Range(zs))
    IN  [i \in DOMAIN zs |->
            IF hi = lo THEN NaN
            ELSE <<2 * (zs[i] - lo) - (hi - lo), hi - lo>>]

NormName(c) == "norm_" \o c
ZName(c) == "z_" \o c

\* Line 65: the four norm_ columns.
Normalized(rows) ==
    LET norm == [c \in Range(normalize_cols) |-> MinMaxScale(Column(rows, c))]
    IN  [i \in DOMAIN rows |->
            rows[i] @@ ("norm_out" :> norm["out"][i]) @@ ("norm_in" :> norm["in"][i])
                    @@ ("norm_node_betw" :> norm["node_betw"][i])
                    @@ ("norm_food_av" :> norm["food_av"][i])]

\* Line 68: the four z_ columns.
ZScored(rows) ==
    LET z == [c \in Range(normalize_cols) |-> ZScore(Column(rows, NormName(c)))]
    IN  [i \in DOMAIN rows |->
            rows[i] @@ ("z_out" :> z["out"][i]) @@ ("z_in" :> z["in"][i])
                    @@ ("z_node_betw" :> z["node_betw"][i])
                    @@ ("z_food_av" :> z["food_av"][i])]

\* Line 71.
ZSummed(rows) ==
    AddColumn(rows, "z_sum",
              [i \in DOMAIN rows |->
                  RowSum(rows[i], <<"z_out", "z_in", "z_node_betw", "z_food_av">>)])

\* Lines 62-74 on the renamed table (at least one row).
Derived(rows) ==
    LET summed == ZSummed(ZScored(Normalized(rows)))
    IN  AddColumn(summed, "standard_z_sum", Standardize(Column(summed, "z_sum")))

(***************************************************************************)
(* The input files of a run.  Each metric file is the complete table, one  *)
(* row per cell with the values of a profile, or that table with one edit: *)
(* a row dropped, a second row added for a cell, or a row added for a node *)
(* that is no cell.                                                        *)
(***************************************************************************)
Profiles == {"flat", "up", "skew"}

ProfileValue(p, i) ==
    CASE p = "flat" -> 2
      [] p = "up"   -> i + 1
      [] p = "skew" -> 4 - i * i

MetricFiles ==
    [in_degree_file |-> "In_Degree", out_degree_file |-> "Out_Degree",
     betweenness_file |-> "Betweenness", food_availability_file |-> "Food_Availability",
     self_recruitment_file |-> "Self_Recruitment", community_file |-> "Community"]

Edits(n) ==
    {[file |-> "", kind |-> "none", cell |-> 0]}
        \cup [file : DOMAIN MetricFiles, kind : {"drop", "dup"}, cell : 0..(n - 1)]
        \cup [file : DOMAIN MetricFiles, kind : {"orphan"}, cell : {n}]

MetricRow(c, node, v) == ("Node" :> <<node>>) @@ (c :> <<v>>)

MetricTable(f, n, p, e) ==
    LET c    == MetricFiles[f]
        full == [i \in 1..n |-> MetricRow(c, i - 1, ProfileValue(p, i - 1))]
    IN  [cols |-> {"Node", c},
         rows |-> IF e.file # f THEN full
                  ELSE CASE e.kind = "drop" ->
                              [i \in 1..(n - 1) |->
                                  IF i <= e.cell THEN full[i] ELSE full[i + 1]]
                         [] e.kind = "dup" ->
                              Append(full, MetricRow(c, e.cell,
                                                     ProfileValue(p, e.cell) + 2))
                         [] e.kind = "orphan" ->
                              Append(full, MetricRow(c, e.cell, 1))]

\* The grid file: n unit polygons in a row, with no Cell ID attribute or
\* with one holding each polygon's position.
GridFile(n, cell_id) ==
    [cols |-> IF cell_id = "absent" THEN {"geometry"} ELSE {"geometry", "Cell ID"},
     rows |-> [i \in 1..n |->
                 IF cell_id = "absent" THEN ("geometry" :> {i - 1})
                 ELSE ("geometry" :> {i - 1})
                         @@ ("Cell ID" :> <<i - 1>>)]]

CsvArgsOf(n) ==
    {[in_degree_file |-> MetricTable("in_degree_file", n, p_in, e),
      out_degree_file |-> MetricTable("out_degree_file", n, p_out, e),
      betweenness_file |-> MetricTable("betweenness_file", n, p_betw, e),
      food_availability_file |-> MetricTable("food_availability_file", n, p_food, e),
      self_recruitment_file |-> MetricTable("self_recruitment_file", n, "up", e),
      community_file |-> MetricTable("community_file", n, "up", e),
      structure_shp |-> {0},
      grid_shp |-> GridFile(n, cell_id)] :
        p_in \in Profiles, p_out \in Profiles,
        p_betw \in {"flat", "up"}, p_food \in {"flat", "up"},
        e \in Edits(n), cell_id \in {"absent", "position"}}

CsvArgs == UNION {CsvArgsOf(n) : n \in 0..MaxCells}

InitCsv ==
    /\ pipeline = "csv"
    /\ pc = "start"
    /\ written = {}
    /\ args \in CsvArgs
    /\ grid_cells = <<>>
    /\ ocean_grid = <<>>
    /\ df = <<>>
    /\ results = <<>>
    /\ error = ""

\* generate_analysis_csv(..., output_csv)
GenerateAnalysisCsv ==
    /\ pipeline = "csv"
    /\ pc = "start"
    /\ \/ \* a file of lines 24-33 cannot be read
          pc' = "failed" /\ error' = "read_csv" /\ UNCHANGED <<df, written>>
       \/ IF "Cell ID" \notin args.grid_shp.cols
          THEN \* line 49: grid has no column Cell ID
               pc' = "failed" /\ error' = "KeyError" /\ UNCHANGED <<df, written>>
          ELSE IF args.grid_shp.rows = <<>>
          THEN \* line 65: MinMaxScaler refuses a table of no rows
               pc' = "failed" /\ error' = "ValueError" /\ UNCHANGED <<df, written>>
          ELSE /\ df' = Derived(Rename(Merged(args).rows))
               /\ \/ pc' = "done" /\ error' = ""
                     /\ written' = written \cup {"analysis.csv"}
                  \/ \* line 77: output_csv cannot be written
                     pc' = "failed" /\ error' = "to_csv" /\ written' = written
    /\ UNCHANGED <<pipeline, args, grid_cells, ocean_grid, results>>

NextCsv == GenerateAnalysisCsv

SpecCsv == InitCsv /\ [][NextCsv]_vars

(***************************************************************************)
(* Properties of generate_analysis_csv.                                    *)
(***************************************************************************)
CsvDone == pipeline = "csv" /\ pc = "done"

RatEq(a, b) == a[1] * b[2] = b[1] * a[2]
RatLe(a, b) == a[1] * b[2] <= b[1] * a[2]

\* The metric file behind each renamed metric column.
FileOf ==
    [c \in {"in", "out", "node_betw", "food_av", "sr", "community"} |->
        CASE c = "in" -> "in_degree_file"
          [] c = "out" -> "out_degree_file"
          [] c = "node_betw" -> "betweenness_file"
          [] c = "food_av" -> "food_availability_file"
          [] c = "sr" -> "self_recruitment_file"
          [] c = "community" -> "community_file"]

HasRowFor(f, cell) == \E j \in DOMAIN args[f].rows : args[f].rows[j]["Node"] = cell

\* C3: the output has exactly one row per grid cell, in the cells' order,
\* each with its cell's ordinal as Cell ID and its cell's contains_structure
\* flag, whatever rows the metric tables hold.
C3_OneRowPerCell ==
    CsvDone =>
        /\ Len(df) = Len(args.grid_shp.rows)
        /\ \A i \in DOMAIN df :
              /\ df[i]["Cell ID"] = <<i - 1>>
              /\ df[i]["contains_structure"]
                    = <<ContainsStructure(args.structure_shp,
                                          args.grid_shp.rows[i]["geometry"])>>

\* C4: a cell for which a metric table has no row has NaN in that metric
\* column and in its norm_ and z_ columns, and the norm_ and z_ values of
\* the other rows are those of the column with the missing rows left out:
\* minimum, maximum, mean and deviation are taken over the present values.
C4_MissingStaysMissing ==
    CsvDone =>
        /\ \A i \in DOMAIN df : \A c \in DOMAIN FileOf :
              ~HasRowFor(FileOf[c], df[i]["Cell ID"]) => IsNaN(df[i][c])
        /\ \A c \in Range(normalize_cols) :
              LET here == SelectIdx([i \in DOMAIN df |-> ~IsNaN(df[i][c])], 1, Len(df))
                  vals == {df[i][c][1] : i \in Range(here)}
                  sub  == [k \in DOMAIN here |-> df[here[k]][NormName(c)]]
              IN  /\ \A i \in DOMAIN df :
                        IsNaN(df[i][c])
                            => IsNaN(df[i][NormName(c)]) /\ IsNaN(df[i][ZName(c)])
                  /\ \A i \in Range(here) :
                        /\ ~IsNaN(df[i][NormName(c)])
                        /\ SetMax(vals) # SetMin(vals)
                              => RatEq(df[i][NormName(c)],
                                       <<df[i][c][1] - SetMin(vals),
                                         SetMax(vals) - SetMin(vals)>>)
                  /\ \A k \in DOMAIN here : df[here[k]][ZName(c)] = ZScore(sub)[k]

\* A cell lacks only its out-degree row, and another row of the table has a
\* nonzero z-score for out.
C4_Witness ==
    /\ CsvDone
    /\ \E i \in DOMAIN df :
          /\ ~HasRowFor("out_degree_file", df[i]["Cell ID"])
          /\ ~IsNaN(df[i]["in"])
          /\ IsNaN(df[i]["norm_out"])
    /\ \E i \in DOMAIN df :
          /\ ~IsNaN(df[i]["z_out"])
          /\ df[i]["z_out"][1] # 0

ColumnValues(c) == {df[i][c][1] : i \in {j \in DOMAIN df : ~IsNaN(df[j][c])}}

\* C5 as stated: on every column with a value, constant ones included, the
\* normalised values lie in [0,1], the minimum maps to 0 and the maximum to 1.
C5_MinToZeroMaxToOne ==
    CsvDone =>
        \A c \in Range(normalize_cols) : \A i \in DOMAIN df :
            ~IsNaN(df[i][c]) =>
                /\ RatLe(<<0, 1>>, df[i][NormName(c)])
                /\ RatLe(df[i][NormName(c)], <<1, 1>>)
                /\ df[i][c][1] = SetMin(ColumnValues(c))
                      => RatEq(df[i][NormName(c)], <<0, 1>>)
                /\ df[i][c][1] = SetMax(ColumnValues(c))
                      => RatEq(df[i][NormName(c)], <<1, 1>>)

\* C5 amended: the normalised values lie in [0,1] and the minimum maps to
\* 0; the maximum maps to 1 when the column holds two different values, and
\* every value of a constant column maps to 0.
C5_MinMaxNormalization ==
    CsvDone =>
        \A c \in Range(normalize_cols) : \A i \in DOMAIN df :
            ~IsNaN(df[i][c]) =>
                /\ RatLe(<<0, 1>>, df[i][NormName(c)])
                /\ RatLe(df[i][NormName(c)], <<1, 1>>)
                /\ df[i][c][1] = SetMin(ColumnValues(c))
                      => RatEq(df[i][NormName(c)], <<0, 1>>)
                /\ (df[i][c][1] = SetMax(ColumnValues(c))
                       /\ SetMax(ColumnValues(c)) # SetMin(ColumnValues(c)))
                      => RatEq(df[i][NormName(c)], <<1, 1>>)
                /\ SetMax(ColumnValues(c)) = SetMin(ColumnValues(c))
                      => RatEq(df[i][NormName(c)], <<0, 1>>)

\* A column whose values map to 0, to 1 and strictly between, beside a
\* constant column.
C5_Witness ==
    /\ CsvDone
    /\ \E c \in Range(normalize_cols) :
          /\ \E i \in DOMAIN df : df[i][NormName(c)] # NaN /\ RatEq(df[i][NormName(c)], <<0, 1>>)
          /\ \E i \in DOMAIN df : df[i][NormName(c)] # NaN /\ RatEq(df[i][NormName(c)], <<1, 1>>)
          /\ \E i \in DOMAIN df :
                /\ df[i][NormName(c)] # NaN
                /\ ~RatLe(df[i][NormName(c)], <<0, 1>>)
                /\ ~RatLe(<<1, 1>>, df[i][NormName(c)])
    /\ \E c \in Range(normalize_cols) :
          /\ Cardinality(ColumnValues(c)) = 1
          /\ Cardinality({i \in DOMAIN df : ~IsNaN(df[i][c])}) > 1

ZSums == {df[i]["z_sum"] : i \in DOMAIN df}

\* C6: standard_z_sum is always a defined value in [-1,1]: it is
\* 2*(z_sum - min)/(max - min) - 1 when the z_sum values differ, and a
\* defined fallback, never NaN, when they are all equal.
C6_StandardZSumDefined ==
    CsvDone =>
        \A i \in DOMAIN df :
            /\ ~IsNaN(df[i]["standard_z_sum"])
            /\ RatLe(<<-1, 1>>, df[i]["standard_z_sum"])
            /\ RatLe(df[i]["standard_z_sum"], <<1, 1>>)
            /\ SetMax(ZSums) # SetMin(ZSums)
                  => RatEq(df[i]["standard_z_sum"],
                           <<2 * (df[i]["z_sum"] - SetMin(ZSums))
                                - (SetMax(ZSums) - SetMin(ZSums)),
                             SetMax(ZSums) - SetMin(ZSums)>>)

(***************************************************************************)
(* extract_release_and_settlement_polys.py                                 *)
(*                                                                         *)
(* A point is the unit square it lies in; the grid file holds unit         *)
(* polygons side by side on the row y = 0, so a point lies within at most  *)
(* one polygon.                                                            *)
(***************************************************************************)
MaxParticles == 2
MaxTimes == 2
MaxPolys == 2

\* shapely.geometry.Point(x, y)
Point(x, y) == <<x, y>>

\* Lines 29-46: extract_particle_positions(nc_file)
ExtractParticlePositions(nc) ==
    LET num_particles == nc.particles
    IN  [particle_ids |-> [i \in 1..num_particles |-> i],
         first_positions |-> [i \in 1..num_particles |-> Point(nc.x[1][i], nc.y[1][i])],
         last_positions |-> [i \in 1..num_particles |->
                                Point(nc.x[Len(nc.x)][i], nc.y[Len(nc.y)][i])]]

\* gpd.sjoin(points, grid, how='left', predicate='within'): every point in
\* order, once per polygon it is within, with that polygon's position as
\* index_right and its attributes, or once with index_right and the
\* attributes missing.
SJoinLeftWithin(points, grid) ==
    Flatten([i \in DOMAIN points |->
        LET hit == SelectIdx([j \in DOMAIN grid.rows |->
                                 points[i] \in grid.rows[j]["geometry"]],
                             1, Len(grid.rows))
        IN  IF hit = <<>>
            THEN <<("index_left" :> i) @@ ("index_right" :> NaN)
                      @@ [c \in grid.cols \ {"geometry"} |-> NaN]>>
            ELSE [k \in DOMAIN hit |->
                     ("index_left" :> i) @@ ("index_right" :> <<hit[k] - 1>>)
                        @@ [c \in grid.cols \ {"geometry"} |-> grid.rows[hit[k]][c]]]])

OutsideGridDomain == <<"outside grid domain", NaN>>

\* Line 61: index_right.fillna('outside grid domain')
FillNa(v, fill) == IF IsNaN(v) THEN fill ELSE v

\* Lines 49-70: assign_polygons, once first_joined has a Release_poly column.
AssignPolygons(particle_ids, first_positions, last_positions, grid) ==
    LET first_joined == SJoinLeftWithin(first_positions, grid)
        last_joined  == SJoinLeftWithin(last_positions, grid)
    IN  [i \in DOMAIN particle_ids |->
            ("particleID" :> particle_ids[i])
               @@ ("Release_poly" :> first_joined[i]["Release_poly"])
               @@ ("Settlement_poly" :>
                      FillNa(last_joined[i]["index_right"], OutsideGridDomain))]

\* The grid file read by the particle and ERSEM scripts: n unit polygons,
\* with no attribute, or with a Release_poly attribute holding each
\* polygon's position.
PolyFile(n, attr) ==
    [cols |-> IF attr THEN {"geometry", "Release_poly"} ELSE {"geometry"},
     rows |-> [j \in 1..n |->
                 IF attr THEN ("geometry" :> Box(j - 1, 0, j, 1)) @@ ("Release_poly" :> <<j - 1>>)
                 ELSE ("geometry" :> Box(j - 1, 0, j, 1))]]

NcFiles ==
    UNION {[particles : {n}, x : [1..t -> [1..n -> 0..MaxPolys]],
            y : [1..t -> [1..n -> {0}]]] :
              n \in 1..MaxParticles, t \in 1..MaxTimes}

NcArgs ==
    [nc_file : NcFiles,
     shapefile : {PolyFile(n, attr) : n \in 1..MaxPolys, attr \in BOOLEAN}]

InitNc ==
    /\ pipeline = "nc"
    /\ pc = "start"
    /\ written = {}
    /\ args \in NcArgs
    /\ grid_cells = <<>>
    /\ ocean_grid = <<>>
    /\ df = <<>>
    /\ results = <<>>
    /\ error = ""

\* process_nc_to_csv(nc_file, shapefile, output_csv)
ProcessNcToCsv ==
    /\ pipeline = "nc"
    /\ pc = "start"
    /\ \/ \* lines 30, 50: a file cannot be read
          pc' = "failed" /\ error' = "read_file" /\ UNCHANGED <<results, written>>
       \/ IF "Release_poly" \notin args.shapefile.cols
          THEN \* line 66: first_joined has no column Release_poly
               pc' = "failed" /\ error' = "KeyError" /\ UNCHANGED <<results, written>>
          ELSE LET p == ExtractParticlePositions(args.nc_file)
               IN  /\ results' = AssignPolygons(p.particle_ids, p.first_positions,
                                                p.last_positions, args.shapefile)
                   /\ \/ pc' = "done" /\ error' = ""
                         /\ written' = written \cup {"output.csv"}
                      \/ \* line 76: output_csv cannot be written
                         pc' = "failed" /\ error' = "to_csv" /\ written' = written
    /\ UNCHANGED <<pipeline, args, grid_cells, ocean_grid, df>>

NextNc == ProcessNcToCsv

SpecNc == InitNc /\ [][NextNc]_vars

(***************************************************************************)
(* Properties of process_nc_to_csv.                                        *)
(***************************************************************************)
PolyOf(p) ==
    LET hit == {j \in DOMAIN args.shapefile.rows : p \in args.shapefile.rows[j]["geometry"]}
    IN  IF hit = {} THEN NaN ELSE <<(CHOOSE j \in hit : TRUE) - 1>>

\* C8: every run that can read its files and write its output completes,
\* with one row per particle, particleID 1..N in order, Settlement_poly the
\* polygon containing the last position or 'outside grid domain', and
\* Release_poly the polygon containing the first position.
C8_SettlementNeverCrashes ==
    (pipeline = "nc" /\ pc # "start" /\ error \notin {"read_file", "to_csv"}) =>
        /\ pc = "done"
        /\ Len(results) = args.nc_file.particles
        /\ \A i \in DOMAIN results :
              /\ results[i]["particleID"] = i
              /\ results[i]["Settlement_poly"]
                    = FillNa(PolyOf(Point(args.nc_file.x[Len(args.nc_file.x)][i],
                                          args.nc_file.y[Len(args.nc_file.y)][i])),
                             OutsideGridDomain)
              /\ results[i]["Release_poly"]
                    = PolyOf(Point(args.nc_file.x[1][i], args.nc_file.y[1][i]))

(***************************************************************************)
(* ersem_nc_to_polygons.py                                                 *)
(***************************************************************************)
MaxNodes == 2
FillValue == 99

RatAdd(a, b) == IF IsNaN(a) \/ IsNaN(b) THEN NaN ELSE <<a[1] * b[2] + b[1] * a[2], a[2] * b[2]>>

\* Lines 67-76, one variable at one node: the fill value becomes NaN and
\* np.nanmean averages what is left over the chosen times.
NanMeanOverTime(var, time_indices, node, fill_value) ==
    LET ok == {t \in time_indices : var[t][node] # fill_value}
    IN  IF ok = {} THEN NaN
        ELSE <<SumOver([t \in ok |-> var[t][node]], ok), Cardinality(ok)>>

\* Lines 50-83: extract_and_average_ersem past the check of line 52.
ExtractAndAverageErsem(nc, time_indices) ==
    [k \in DOMAIN nc.lon |->
        [lon |-> nc.lon[k], lat |-> nc.lat[k],
         Total_P |->
            RatAdd(RatAdd(NanMeanOverTime(nc.P1_c, time_indices, k, FillValue),
                          NanMeanOverTime(nc.P2_c, time_indices, k, FillValue)),
                   RatAdd(NanMeanOverTime(nc.P3_c, time_indices, k, FillValue),
                          NanMeanOverTime(nc.P4_n, time_indices, k, FillValue)))]]

RECURSIVE RatSum(_, _)
RatSum(f, S) == IF S = {} THEN <<0, 1>>
                ELSE LET x == CHOOSE y \in S : TRUE IN RatAdd(f[x], RatSum(f, S \ {x}))

\* Lines 86-99: map_to_polygons.  groupby drops the points outside every
\* polygon, lists the polygons in increasing order, and mean skips NaN.
MapToPolygons(ersem_data, grid) ==
    LET points == [k \in DOMAIN ersem_data |-> Point(ersem_data[k].lon, ersem_data[k].lat)]
        joined == SJoinLeftWithin(points, grid)
        groups == SelectIdx([j \in DOMAIN grid.rows |->
                                \E r \in DOMAIN joined : joined[r]["index_right"] = <<j - 1>>],
                            1, Len(grid.rows))
    IN  [g \in DOMAIN groups |->
            LET members == {r \in DOMAIN joined :
                               /\ joined[r]["index_right"] = <<groups[g] - 1>>
                               /\ ~IsNaN(ersem_data[joined[r]["index_left"]].Total_P)}
                total == RatSum([r \in members |->
                                    ersem_data[joined[r]["index_left"]].Total_P], members)
            IN  [Polygon_ID |-> groups[g] - 1,
                 Average_P |-> IF members = {} THEN NaN
                               ELSE <<total[1], total[2] * Cardinality(members)>>]]

ErsemFiles ==
    [time : {[t \in 1..MaxTimes |-> t]},
     lon : [1..MaxNodes -> 0..MaxPolys],
     lat : {[k \in 1..MaxNodes |-> 0]},
     P1_c : [1..MaxTimes -> [1..MaxNodes -> {1, FillValue}]],
     P2_c : {[t \in 1..MaxTimes |-> [k \in 1..MaxNodes |-> 2]]},
     P3_c : {[t \in 1..MaxTimes |-> [k \in 1..MaxNodes |-> 3]]},
     P4_n : {[t \in 1..MaxTimes |-> [k \in 1..MaxNodes |-> t]]}]

ErsemArgs ==
    [nc_file : ErsemFiles,
     shapefile : {PolyFile(n, FALSE) : n \in 1..MaxPolys},
     start_time : 0..(MaxTimes + 1), end_time : 0..(MaxTimes + 1)]

InitErsem ==
    /\ pipeline = "ersem"
    /\ pc = "start"
    /\ written = {}
    /\ args \in ErsemArgs
    /\ grid_cells = <<>>
    /\ ocean_grid = <<>>
    /\ df = <<>>
    /\ results = <<>>
    /\ error = ""

\* process_ersem_to_polygons(nc_file, shapefile, start_time, end_time, output_csv)
ProcessErsemToPolygons ==
    /\ pipeline = "ersem"
    /\ pc = "start"
    /\ \/ \* lines 42, 87: a file cannot be read
          pc' = "failed" /\ error' = "read_file" /\ UNCHANGED <<results, written>>
       \/ LET time_indices == {t \in DOMAIN args.nc_file.time :
                                  /\ args.nc_file.time[t] >= args.start_time
                                  /\ args.nc_file.time[t] <= args.end_time}
          IN  IF time_indices = {}
              THEN \* line 53
                   pc' = "failed" /\ error' = "ValueError" /\ UNCHANGED <<results, written>>
              ELSE /\ results' = MapToPolygons(
                                    ExtractAndAverageErsem(args.nc_file, time_indices),
                                    args.shapefile)
                   /\ \/ pc' = "done" /\ error' = ""
                         /\ written' = written \cup {"output.csv"}
                      \/ \* line 105: output_csv cannot be written
                         pc' = "failed" /\ error' = "to_csv" /\ written' = written
    /\ UNCHANGED <<pipeline, args, grid_cells, ocean_grid, df>>

(***************************************************************************)
(* Every script's runs.                                                    *)
(***************************************************************************)
Init == InitGrid \/ InitCsv \/ InitNc \/ InitErsem

Next ==
    \/ GenerateGrid
    \/ SaveGridAsShapefile
    \/ SaveCentroidsAsCsv
    \/ GenerateAnalysisCsv
    \/ ProcessNcToCsv
    \/ ProcessErsemToPolygons

Spec == Init /\ [][Next]_vars

Outputs ==
    [grid |-> {"grid.shp", "release_locs.csv"}, csv |-> {"analysis.csv"},
     nc |-> {"output.csv"}, ersem |-> {"output.csv"}]

\* C7: a run is atomic with respect to its output: a run that ended in
\* failure has written no output file, and a run that completed has
\* written them all.
C7_AtomicRuns ==
    /\ pc = "failed" => written = {}
    /\ pc = "done" => written = Outputs[pipeline]

=============================================================================
